---------------------------- MODULE Spec2Model ----------------------------
(***************************************************************************)
(* Model of the simple-quiz-engine backend: the SQLite layer               *)
(* (backend/app/database.py) and the WebSocket session engine              *)
(* (backend/app/main.py).                                                  *)
(***************************************************************************)
EXTENDS Integers, Sequences, FiniteSets, TLC

VARIABLES
    questions,     \* rows of the questions table, ordered by question_number
    sessions,      \* rows of the sessions table, by session id (NoRow if absent)
    responses,     \* rows of the responses table (a set of records)
    last_call,     \* the latest direct call of a database function: arguments and result
    active_connections,    \* manager.active_connections: session id -> connection
    session_tasks,         \* manager.session_tasks: session id -> timer task
    question_start_times,  \* manager.question_start_times: session id -> seconds since the stamp
    conn,          \* the websocket_endpoint coroutines: position and locals
    task,          \* the run_timer tasks: position and locals
    out,           \* what the latest step sent to a client (an event or a close)
    pushed,        \* per session: the timer_tick values and quiz_complete reasons pushed so far
    clock,         \* per session: wall-clock seconds since its first question-start stamp
    max_connections, \* the connection ceiling the process was started with
    _rate_limit_store, \* per client IP: the times of its counted calls
    now,           \* time.time() as the rate limiter reads it
    granted        \* per client IP: the times of all its calls that returned True

dbvars == <<questions, sessions, responses>>

regvars == <<active_connections, session_tasks, question_start_times>>

ratevars == <<_rate_limit_store, now, granted>>

enginevars == <<active_connections, session_tasks, question_start_times,
                conn, task, out, pushed, clock, max_connections,
                _rate_limit_store, now, granted>>

vars == <<questions, sessions, responses, last_call,
          active_connections, session_tasks, question_start_times,
          conn, task, out, pushed, clock, max_connections,
          _rate_limit_store, now, granted>>

-----------------------------------------------------------------------------
(* Bounds of the model *)

\* the quiz's time_limit_seconds
TimeLimit == 2
\* largest elapsed time (seconds) handed to save_response in one call
MaxElapsed == 1
\* largest accumulated time_spent_seconds of one response row
MaxSpent == 2
\* the wall clock of a session is followed up to this many seconds
MaxClock == 2

-----------------------------------------------------------------------------
(* Values *)

None == "None"
NoRow == [absent |-> TRUE]
NoScore == [null |-> TRUE]

SessionIds == {"s1", "s2"}
Conns == {"c1", "c2"}
Tasks == {"t1", "t2"}
NoStamp == -1
NoOut == [type |-> "nothing"]

\* MAX_WS_CONNECTIONS default
MAX_CONNECTIONS == 200

\* a small value of MAX_WS_CONNECTIONS
SmallLimit == 1

\* the rate limit, scaled down: 30 calls in 60 seconds at main.py:31-32
RATE_LIMIT_WINDOW == 2
RATE_LIMIT_MAX == 2

\* the last second the rate limiter is called in
MaxNow == 4

ClientIps == {"10.0.0.1", "10.0.0.2"}

\* the quiz seeded by the test fixtures: three questions worth 1, 1 and 2
\* points (each with two of its four options)
SeedQuestions ==
    << [id |-> "tq1", question_number |-> 1, options |-> <<"1", "2">>,
        correct_answer |-> "2", points |-> 1],
       [id |-> "tq2", question_number |-> 2, options |-> <<"2", "4">>,
        correct_answer |-> "4", points |-> 1],
       [id |-> "tq3", question_number |-> 3, options |-> <<"4", "6">>,
        correct_answer |-> "6", points |-> 2] >>

\* the first three questions of the sample quiz seed_sample_quiz creates:
\* every question is worth the column default of 1 point
DemoQuestions ==
    << [id |-> "q1", question_number |-> 1, options |-> <<"6", "8">>,
        correct_answer |-> "8", points |-> 1],
       [id |-> "q2", question_number |-> 2, options |-> <<"function", "def">>,
        correct_answer |-> "def", points |-> 1],
       [id |-> "q3", question_number |-> 3, options |-> <<"int", "float">>,
        correct_answer |-> "float", points |-> 1] >>

Range(f) == {f[i] : i \in DOMAIN f}

-----------------------------------------------------------------------------
(* Python floats: IEEE-754 binary64, round to nearest, ties to even.  A     *)
(* positive float is [mant, exp]: mant its 53 significant bits, most        *)
(* significant (always 1) first, and the value is 1.mant[2..53] * 2^exp.   *)

MantBits == 53

FZero == [mant |-> <<>>, exp |-> 0]

Zeros(n) == [i \in 1..n |-> 0]

RECURSIVE IntBits(_)
\* the binary digits of n > 0, most significant first
IntBits(n) == IF n < 2 THEN <<n>> ELSE Append(IntBits(n \div 2), n % 2)

RECURSIVE BitsInt(_)
\* the number a (short) digit sequence denotes
BitsInt(bits) ==
    IF bits = <<>> THEN 0
    ELSE 2 * BitsInt(SubSeq(bits, 1, Len(bits) - 1)) + bits[Len(bits)]

\* bits + 1, one digit longer when every digit was 1
IncBits(bits) ==
    IF \A i \in DOMAIN bits : bits[i] = 1
    THEN <<1>> \o Zeros(Len(bits))
    ELSE LET z == CHOOSE i \in DOMAIN bits :
                    bits[i] = 0 /\ \A j \in (i + 1)..Len(bits) : bits[j] = 1
         IN  [i \in DOMAIN bits |-> IF i < z THEN bits[i] ELSE IF i = z THEN 1 ELSE 0]

\* round the digits `bits` (first digit 1, weight 2^exp) to n significant
\* digits; `sticky` tells that non-zero digits follow the given ones
RoundTo(bits, exp, sticky, n) ==
    IF Len(bits) <= n
    THEN [mant |-> bits \o Zeros(n - Len(bits)), exp |-> exp]
    ELSE LET kept == SubSeq(bits, 1, n)
             rest == SubSeq(bits, n + 1, Len(bits))
             more == sticky \/ \E i \in 2..Len(rest) : rest[i] = 1
             up   == rest[1] = 1 /\ (more \/ kept[n] = 1)
             inc  == IncBits(kept)
         IN  IF ~up THEN [mant |-> kept, exp |-> exp]
             ELSE IF Len(inc) > n
                  THEN [mant |-> SubSeq(inc, 1, n), exp |-> exp + 1]
                  ELSE [mant |-> inc, exp |-> exp]

\* float(n) for an integer 0 <= n < 2^31: exact
FloatOfInt(n) ==
    IF n = 0 THEN FZero
    ELSE RoundTo(IntBits(n), Len(IntBits(n)) - 1, FALSE, MantBits)

RECURSIVE DivRem(_, _, _)
\* the remainder left after i binary digits of r / b (0 <= r < b)
DivRem(r, b, i) == IF i = 0 THEN r ELSE (2 * DivRem(r, b, i - 1)) % b

\* the next n binary digits of r / b (0 <= r < b), then the remainder left
DivDigits(r, b, n) ==
    [digits |-> [i \in 1..n |-> IF 2 * DivRem(r, b, i - 1) >= b THEN 1 ELSE 0],
     rem |-> DivRem(r, b, n)]

RECURSIVE Shift(_, _)
\* the least k with a * 2^k >= b (0 < a <= b)
Shift(a, b) == IF a >= b THEN 0 ELSE 1 + Shift(2 * a, b)

Pow2(k) == BitsInt(<<1>> \o Zeros(k))

\* a / b for integers 0 <= a <= b, b > 0 (int / int is true division)
FDivInt(a, b) ==
    IF a = 0 THEN FZero
    ELSE LET k == Shift(a, b)
             q == DivDigits(a * Pow2(k) - b, b, MantBits)
         IN  RoundTo(<<1>> \o q.digits, -k, q.rem # 0, MantBits)

RECURSIVE MulCarry(_, _, _)
\* the carry out of digit i (digits are numbered from the most significant)
\* when bits is multiplied by n
MulCarry(bits, n, i) ==
    IF i > Len(bits) THEN 0
    ELSE (bits[i] * n + MulCarry(bits, n, i + 1)) \div 2

\* the digits of bits * n (bits non-empty, first digit 1, n > 0)
MulDigits(bits, n) ==
    LET top == MulCarry(bits, n, 1)
        low == [i \in DOMAIN bits |-> (bits[i] * n + MulCarry(bits, n, i + 1)) % 2]
    IN  IF top = 0 THEN low ELSE IntBits(top) \o low

\* the exact product x * n as digits (first digit 1) and the first digit's weight
ExactMulInt(x, n) ==
    LET p == MulDigits(x.mant, n)
    IN  [bits |-> p, exp |-> x.exp + (Len(p) - MantBits)]

\* x * n for a float x and an integer n > 0 (x * float(n), n exact)
FMulInt(x, n) ==
    IF x = FZero THEN FZero
    ELSE LET p == ExactMulInt(x, n)
         IN  RoundTo(p.bits, p.exp, FALSE, MantBits)

\* a <= b for digit sequences of one length
BitsLeq(a, b) ==
    \/ a = b
    \/ \E i \in DOMAIN a : a[i] < b[i] /\ \A j \in 1..(i - 1) : a[j] = b[j]

\* x <= y for floats >= 0
FLeq(x, y) ==
    IF x = FZero THEN TRUE
    ELSE IF y = FZero THEN FALSE
    ELSE IF x.exp # y.exp THEN x.exp < y.exp
    ELSE BitsLeq(x.mant, y.mant)

-----------------------------------------------------------------------------
(* database.py: questions *)

\* SELECT * FROM questions WHERE id = ?
get_question(question_id) ==
    IF \E i \in DOMAIN questions : questions[i].id = question_id
    THEN questions[CHOOSE i \in DOMAIN questions : questions[i].id = question_id]
    ELSE NoRow

QuestionIds == {questions[i].id : i \in DOMAIN questions}

-----------------------------------------------------------------------------
(* database.py: sessions *)

\* the row create_session inserts: status not_started, the quiz's time
\* limit as remaining time, the column defaults elsewhere.  Timestamps are
\* logical: 0 is NULL, k > 0 the k-th write of the column.
NewSession ==
    [status |-> "not_started", time_remaining_seconds |-> TimeLimit,
     current_question |-> 1, score |-> NoScore,
     started_at |-> 0, completed_at |-> 0]

get_session(session_id) == sessions[session_id]

start_session(tbl, session_id) ==
    IF tbl[session_id] # NoRow /\ tbl[session_id].status = "not_started"
    THEN [tbl EXCEPT ![session_id].status = "in_progress",
                     ![session_id].started_at = @ + 1]
    ELSE tbl

\* update_session_time without the UPDATE
update_session_time_lost(tbl, session_id, time_remaining) == tbl

update_session_time(tbl, session_id, time_remaining) ==
    IF tbl[session_id] # NoRow
    THEN [tbl EXCEPT ![session_id].time_remaining_seconds = time_remaining]
    ELSE tbl

update_current_question(tbl, session_id, question_number) ==
    IF tbl[session_id] # NoRow
    THEN [tbl EXCEPT ![session_id].current_question = question_number]
    ELSE tbl

\* complete_session leaving the score column alone
complete_session_unscored(tbl, session_id, score) ==
    IF tbl[session_id] # NoRow
    THEN [tbl EXCEPT ![session_id].status = "completed",
                     ![session_id].completed_at = @ + 1]
    ELSE tbl

complete_session(tbl, session_id, score) ==
    IF tbl[session_id] # NoRow
    THEN [tbl EXCEPT ![session_id].status = "completed",
                     ![session_id].completed_at = @ + 1,
                     ![session_id].score = score]
    ELSE tbl

-----------------------------------------------------------------------------
(* database.py: responses *)

RowsOf(tbl, session_id, question_id) ==
    {r \in tbl : r.session_id = session_id /\ r.question_id = question_id}

\* save_response with the upsert overwriting time_spent_seconds
save_response_overwrite(tbl, session_id, question_id, answer, time_spent_seconds) ==
    LET question == get_question(question_id)
        is_correct == IF question # NoRow /\ answer = question.correct_answer
                      THEN 1 ELSE 0
    IN  (tbl \ RowsOf(tbl, session_id, question_id)) \cup
        {[session_id |-> session_id, question_id |-> question_id,
          answer |-> answer, is_correct |-> is_correct,
          time_spent_seconds |-> time_spent_seconds]}

\* save_response with the upsert keeping the old row's correctness flag
save_response_stale_flag(tbl, session_id, question_id, answer, time_spent_seconds) ==
    LET question == get_question(question_id)
        is_correct == IF question # NoRow /\ answer = question.correct_answer
                      THEN 1 ELSE 0
        old == RowsOf(tbl, session_id, question_id)
        new == [session_id |-> session_id, question_id |-> question_id,
                answer |-> answer, is_correct |-> is_correct,
                time_spent_seconds |-> time_spent_seconds]
    IN  IF old = {}
        THEN tbl \cup {new}
        ELSE (tbl \ old) \cup
             {[new EXCEPT !.time_spent_seconds = r.time_spent_seconds + time_spent_seconds,
                          !.is_correct = r.is_correct]
                : r \in old}

\* INSERT ... ON CONFLICT(session_id, question_id) DO UPDATE SET answer,
\* is_correct from the new row, time_spent_seconds = old + new
save_response(tbl, session_id, question_id, answer, time_spent_seconds) ==
    LET question == get_question(question_id)
        is_correct == IF question # NoRow /\ answer = question.correct_answer
                      THEN 1 ELSE 0
        old == RowsOf(tbl, session_id, question_id)
        new == [session_id |-> session_id, question_id |-> question_id,
                answer |-> answer, is_correct |-> is_correct,
                time_spent_seconds |-> time_spent_seconds]
    IN  IF old = {}
        THEN tbl \cup {new}
        ELSE (tbl \ old) \cup
             {[new EXCEPT !.time_spent_seconds = r.time_spent_seconds + time_spent_seconds]
                : r \in old}

\* responses r JOIN questions q ON q.id = r.question_id WHERE r.session_id = ?
JoinedRows(tbl, session_id) ==
    {[session_id |-> r.session_id, question_id |-> r.question_id,
      answer |-> r.answer, is_correct |-> r.is_correct,
      time_spent_seconds |-> r.time_spent_seconds,
      question_number |-> get_question(r.question_id).question_number,
      correct_answer |-> get_question(r.question_id).correct_answer,
      points |-> get_question(r.question_id).points]
        : r \in {x \in tbl : x.session_id = session_id
                                /\ get_question(x.question_id) # NoRow}}

RECURSIVE SortByNumber(_)
SortByNumber(rows) ==
    IF rows = {} THEN <<>>
    ELSE LET first == CHOOSE r \in rows :
                        \A o \in rows : r.question_number <= o.question_number
         IN  <<first>> \o SortByNumber(rows \ {first})

get_responses(tbl, session_id) == SortByNumber(JoinedRows(tbl, session_id))

\* the SELECT with the correct answers weighted by their points
SqlValue_weighted(r, col) ==
    IF col = "earned" THEN (IF r.is_correct = 1 THEN r.points ELSE 0)
    ELSE IF col = "possible" THEN r.points
    ELSE r.is_correct * r.points

\* the summed expressions of calculate_score's SELECT
SqlValue(r, col) ==
    IF col = "earned" THEN (IF r.is_correct = 1 THEN r.points ELSE 0)
    ELSE IF col = "possible" THEN r.points
    ELSE r.is_correct

RECURSIVE SqlSum(_, _)
\* SUM(col) over the rows
SqlSum(rows, col) ==
    IF rows = {} THEN 0
    ELSE LET r == CHOOSE x \in rows : TRUE
         IN  SqlValue(r, col) + SqlSum(rows \ {r}, col)

\* earned / possible * 100 in binary64, for every pair of sums a quiz of
\* the model can yield (evaluated once)
RECURSIVE SumPoints(_)
SumPoints(qs) == IF qs = <<>> THEN 0 ELSE Head(qs).points + SumPoints(Tail(qs))

MaxPoints ==
    CHOOSE m \in {SumPoints(SeedQuestions), SumPoints(DemoQuestions)} :
        m >= SumPoints(SeedQuestions) /\ m >= SumPoints(DemoQuestions)

Percentages ==
    {[earned |-> x[1], possible |-> x[2], value |-> FMulInt(FDivInt(x[1], x[2]), 100)] :
        x \in {y \in (0..MaxPoints) \X (1..MaxPoints) : y[1] <= y[2]}}

Percentage(earned, possible) ==
    (CHOOSE x \in Percentages : x.earned = earned /\ x.possible = possible).value

ZeroScore ==
    [earned |-> 0, possible |-> 0, answered |-> 0, correct |-> 0,
     percentage |-> FZero]

\* calculate_score with the percentage left as the plain quotient
calculate_score_quotient(tbl, session_id) ==
    LET rows == JoinedRows(tbl, session_id)
        earned == SqlSum(rows, "earned")
        possible == SqlSum(rows, "possible")
    IN  IF rows # {} /\ possible # 0
        THEN [earned |-> earned, possible |-> possible,
              answered |-> Cardinality(rows),
              correct |-> SqlSum(rows, "correct"),
              percentage |-> FDivInt(earned, possible)]
        ELSE ZeroScore

calculate_score(tbl, session_id) ==
    LET rows == JoinedRows(tbl, session_id)
        earned == SqlSum(rows, "earned")
        possible == SqlSum(rows, "possible")
    IN  IF rows # {} /\ possible # 0
        THEN [earned |-> earned, possible |-> possible,
              answered |-> Cardinality(rows),
              correct |-> SqlSum(rows, "correct"),
              percentage |-> Percentage(earned, possible)]
        ELSE ZeroScore

-----------------------------------------------------------------------------
(* main.py: the rate limiter *)

\* lines 67-69: the entries younger than the window
Pruned(entries, window_start) == SelectSeq(entries, LAMBDA t : t > window_start)

\* _check_rate_limit counting a call when the limit is reached already
_check_rate_limit_over(store, client_ip, time) ==
    LET kept == Pruned(store[client_ip], time - RATE_LIMIT_WINDOW)
    IN  IF Len(kept) > RATE_LIMIT_MAX
        THEN [result |-> FALSE, store |-> [store EXCEPT ![client_ip] = kept]]
        ELSE [result |-> TRUE,
              store |-> [store EXCEPT ![client_ip] = Append(kept, time)]]

\* lines 63-77, called at `time`: the result and the store it leaves
_check_rate_limit(store, client_ip, time) ==
    LET kept == Pruned(store[client_ip], time - RATE_LIMIT_WINDOW)
    IN  IF Len(kept) >= RATE_LIMIT_MAX
        THEN [result |-> FALSE, store |-> [store EXCEPT ![client_ip] = kept]]
        ELSE [result |-> TRUE,
              store |-> [store EXCEPT ![client_ip] = Append(kept, time)]]

\* line 60: an empty list for every client IP (a defaultdict)
LimiterIdle ==
    /\ _rate_limit_store = [ip \in ClientIps |-> <<>>]
    /\ now = 0
    /\ granted = [ip \in ClientIps |-> <<>>]

-----------------------------------------------------------------------------
(* The database layer driven directly, as the database tests drive it *)

NoCall == [op |-> "none"]

IdleConn == [pc |-> "idle", sid |-> None, status |-> None]
FreeTask == [pc |-> "free", sid |-> None, time_remaining |-> 0]

\* QuizSessionManager.__init__: empty maps; no coroutine, no task
ManagerIdle ==
    /\ active_connections = [s \in SessionIds |-> None]
    /\ session_tasks = [s \in SessionIds |-> None]
    /\ question_start_times = [s \in SessionIds |-> NoStamp]
    /\ conn = [c \in Conns |-> IdleConn]
    /\ task = [t \in Tasks |-> FreeTask]
    /\ out = NoOut
    /\ pushed = [s \in SessionIds |-> [ticks |-> <<>>, complete |-> <<>>]]
    /\ clock = [s \in SessionIds |-> NoStamp]

\* line 30: the ceiling is read once, the default when the variable is unset
EngineIdle ==
    /\ ManagerIdle
    /\ LimiterIdle
    /\ max_connections = MAX_CONNECTIONS

DbInit ==
    /\ questions \in {SeedQuestions, DemoQuestions}
    /\ sessions = [s \in SessionIds |-> IF s = "s1" THEN NewSession ELSE NoRow]
    /\ responses = {}
    /\ last_call = NoCall
    /\ EngineIdle

Option(question_id) == Range(get_question(question_id).options)

StoredTime(tbl, session_id, question_id) ==
    IF RowsOf(tbl, session_id, question_id) = {} THEN 0
    ELSE (CHOOSE r \in RowsOf(tbl, session_id, question_id) : TRUE).time_spent_seconds

DbSaveResponse(s, q, a, t) ==
    /\ sessions[s] # NoRow
    /\ StoredTime(responses, s, q) + t <= MaxSpent
    /\ responses' = save_response(responses, s, q, a, t)
    /\ last_call' = [op |-> "save_response", session_id |-> s, question_id |-> q,
                     answer |-> a, time_spent_seconds |-> t,
                     existed |-> RowsOf(responses, s, q) # {},
                     before |-> StoredTime(responses, s, q)]
    /\ UNCHANGED <<questions, sessions>>
    /\ UNCHANGED enginevars

DbCalculateScore(s) ==
    /\ sessions[s] # NoRow
    /\ last_call' = [op |-> "calculate_score", session_id |-> s,
                     result |-> calculate_score(responses, s)]
    /\ UNCHANGED <<questions, sessions, responses>>
    /\ UNCHANGED enginevars

DbNext ==
    \/ \E s \in SessionIds : \E q \in QuestionIds : \E a \in Option(q) :
          \E t \in 0..MaxElapsed : DbSaveResponse(s, q, a, t)
    \/ \E s \in SessionIds : DbCalculateScore(s)

SpecDb == DbInit /\ [][DbNext]_vars

-----------------------------------------------------------------------------
(* main.py: QuizSessionManager *)

\* positions at which a task is suspended and can still be resumed
\* the positions without the sends: a cancellation met in send_json is lost
Live_outside_send == {"new", "sleep", "due"}

Live == {"new", "sleep", "due", "tick", "end"}

Registry ==
    [active_connections |-> active_connections, session_tasks |-> session_tasks,
     question_start_times |-> question_start_times, task |-> task]

is_connected(session_id) == active_connections[session_id] # None

\* disconnect whose cancel() also strikes a task that has finished
disconnect_cancel_any(reg, session_id, self) ==
    LET t == reg.session_tasks[session_id]
    IN  [active_connections |-> [reg.active_connections EXCEPT ![session_id] = None],
         session_tasks |-> [reg.session_tasks EXCEPT ![session_id] = None],
         question_start_times |->
             [reg.question_start_times EXCEPT ![session_id] = NoStamp],
         task |-> IF t # None /\ t # self
                  THEN [reg.task EXCEPT ![t].pc = "cancelled", ![t].time_remaining = 0]
                  ELSE reg.task]

\* disconnect emptying the connection map instead of popping one entry
disconnect_all(reg, session_id, self) ==
    LET t == reg.session_tasks[session_id]
    IN  [active_connections |-> [x \in SessionIds |-> None],
         session_tasks |-> [reg.session_tasks EXCEPT ![session_id] = None],
         question_start_times |->
             [reg.question_start_times EXCEPT ![session_id] = NoStamp],
         task |-> IF t # None /\ t # self /\ reg.task[t].pc \in Live
                  THEN [reg.task EXCEPT ![t].pc = "cancelled", ![t].time_remaining = 0]
                  ELSE reg.task]

\* manager.disconnect(session_id) run by `self` (a task, or None for a
\* connection's coroutine): pops the three maps and cancels the popped task.
\* Cancelling ends a suspended task at its await; a finished task and the
\* task that is running the call itself are not affected.
disconnect(reg, session_id, self) ==
    LET t == reg.session_tasks[session_id]
    IN  [active_connections |-> [reg.active_connections EXCEPT ![session_id] = None],
         session_tasks |-> [reg.session_tasks EXCEPT ![session_id] = None],
         question_start_times |->
             [reg.question_start_times EXCEPT ![session_id] = NoStamp],
         task |-> IF t # None /\ t # self /\ reg.task[t].pc \in Live
                  THEN [reg.task EXCEPT ![t].pc = "cancelled", ![t].time_remaining = 0]
                  ELSE reg.task]

\* manager.send_message: the message goes to the connection registered for
\* the session at the time of the call, and nowhere if there is none
send_message(ac, session_id, message) ==
    IF ac[session_id] # None
    THEN [type |-> "event", sid |-> session_id, to |-> ac[session_id], msg |-> message]
    ELSE NoOut

start_question_timer(qst, session_id) == [qst EXCEPT ![session_id] = 0]

\* the wall clock of a session starts at its first question-start stamp
Stamped(session_id) ==
    [clock EXCEPT ![session_id] = IF @ = NoStamp THEN 0 ELSE @]

get_question_time_spent(session_id) ==
    IF question_start_times[session_id] # NoStamp
    THEN question_start_times[session_id]
    ELSE 0

\* asyncio.create_task(run_timer(session_id)): the first unused task object
TaskOrder == <<"t1", "t2">>

Unused(tk, st, t) == tk[t].pc \notin Live /\ \A s \in SessionIds : st[s] # t

HasUnused(tk, st) == \E t \in Tasks : Unused(tk, st, t)

NewTaskId(tk, st) ==
    TaskOrder[CHOOSE i \in DOMAIN TaskOrder :
                 /\ Unused(tk, st, TaskOrder[i])
                 /\ \A j \in 1..(i - 1) : ~Unused(tk, st, TaskOrder[j])]

create_task(tk, st, session_id) ==
    [tk EXCEPT ![NewTaskId(tk, st)] =
        [pc |-> "new", sid |-> session_id, time_remaining |-> 0]]

-----------------------------------------------------------------------------
(* main.py: helpers *)

\* the value the session's row holds in the token column
SessionToken(session_id) == "token-of-" \o session_id

\* db.get_questions_for_client: the questions without correct_answer
get_questions_for_client ==
    [i \in DOMAIN questions |->
        [id |-> questions[i].id, question_number |-> questions[i].question_number,
         options |-> questions[i].options]]

\* _get_existing_answer without the lookup of the stored responses
_get_existing_answer_unseen(session_id, question_id) == None

_get_existing_answer(session_id, question_id) ==
    LET rows == get_responses(responses, session_id)
    IN  IF \E i \in DOMAIN rows : rows[i].question_id = question_id
        THEN rows[CHOOSE i \in DOMAIN rows : rows[i].question_id = question_id].answer
        ELSE None

\* _send_question passing the question's whole row on
_send_question_whole_row(session_id, question, question_number, total_questions) ==
    [type |-> "question", question_number |-> question_number,
     total_questions |-> total_questions,
     question |-> [id |-> question.id, options |-> question.options,
                   correct_answer |-> question.correct_answer],
     existing_answer |-> _get_existing_answer(session_id, question.id)]

_send_question(session_id, question, question_number, total_questions) ==
    [type |-> "question", question_number |-> question_number,
     total_questions |-> total_questions,
     question |-> [id |-> question.id, options |-> question.options],
     existing_answer |-> _get_existing_answer(session_id, question.id)]

-----------------------------------------------------------------------------
(* main.py: end_quiz *)

\* the state the coroutines share: the database and the manager's maps
St ==
    [sessions |-> sessions, responses |-> responses,
     active_connections |-> active_connections, session_tasks |-> session_tasks,
     question_start_times |-> question_start_times, task |-> task,
     pushed |-> pushed, out |-> out]

\* the results built from the stored responses, one entry per response
Results_of_responses(session_id) ==
    LET rows == get_responses(responses, session_id)
    IN  [i \in DOMAIN rows |->
            [question_number |-> rows[i].question_number,
             correct_answer |-> rows[i].correct_answer,
             your_answer |-> rows[i].answer,
             is_correct |-> rows[i].is_correct = 1,
             time_spent |-> rows[i].time_spent_seconds]]

Results(session_id) ==
    LET rows == get_responses(responses, session_id)
        Has(q) == \E i \in DOMAIN rows : rows[i].question_id = q.id
        Row(q) == rows[CHOOSE i \in DOMAIN rows : rows[i].question_id = q.id]
    IN  [i \in DOMAIN questions |->
            [question_number |-> questions[i].question_number,
             correct_answer |-> questions[i].correct_answer,
             your_answer |-> IF Has(questions[i]) THEN Row(questions[i]).answer ELSE None,
             is_correct |-> IF Has(questions[i])
                            THEN Row(questions[i]).is_correct = 1 ELSE FALSE,
             time_spent |-> IF Has(questions[i])
                            THEN Row(questions[i]).time_spent_seconds ELSE 0]]

\* end_quiz with the guard against a missing session only
AlreadyEnded_missing(sess, session_id) == sess[session_id] = NoRow

\* the double-completion guard of end_quiz (lines 211-213)
AlreadyEnded(sess, session_id) ==
    sess[session_id] = NoRow \/ sess[session_id].status = "completed"

\* end_quiz up to its await (lines 211-239).  at = "returned": the guard
\* returned early; "send": suspended in send_json with the session completed;
\* "disconnect": nobody is registered, send_message returned without
\* suspending and line 241 runs next in the same step.
end_quiz(st, session_id, reason) ==
    IF AlreadyEnded(st.sessions, session_id)
    THEN [st |-> [st EXCEPT !.out = NoOut], at |-> "returned"]
    ELSE LET score_data == calculate_score(st.responses, session_id)
             st1 == [st EXCEPT
                       !.sessions = complete_session(st.sessions, session_id,
                                                     score_data.percentage),
                       !.out = send_message(st.active_connections, session_id,
                                            [type |-> "quiz_complete", reason |-> reason,
                                             score |-> score_data,
                                             results |-> Results(session_id)]),
                       !.pushed = IF st.active_connections[session_id] # None
                                  THEN [st.pushed EXCEPT ![session_id].complete =
                                                            Append(@, reason)]
                                  ELSE st.pushed]
         IN  [st |-> st1,
              at |-> IF st.active_connections[session_id] # None
                     THEN "send" ELSE "disconnect"]

\* line 241, run by `self`
end_quiz_disconnect(st, session_id, self) ==
    LET d == disconnect([active_connections |-> st.active_connections,
                         session_tasks |-> st.session_tasks,
                         question_start_times |-> st.question_start_times,
                         task |-> st.task], session_id, self)
    IN  [st EXCEPT !.active_connections = d.active_connections,
                   !.session_tasks = d.session_tasks,
                   !.question_start_times = d.question_start_times,
                   !.task = d.task]

\* the next state is the one a step left in st
Becomes(result) ==
    \E st \in {result} :
        /\ sessions' = st.sessions
        /\ responses' = st.responses
        /\ active_connections' = st.active_connections
        /\ session_tasks' = st.session_tasks
        /\ question_start_times' = st.question_start_times
        /\ task' = st.task
        /\ pushed' = st.pushed
        /\ out' = st.out
        /\ UNCHANGED <<clock, max_connections, ratevars>>

-----------------------------------------------------------------------------
(* main.py: run_timer *)

Finished(st, t) ==
    [st EXCEPT !.task[t].pc = "done", !.task[t].time_remaining = 0]

\* lines 204-205: the loop is over
TimerExpire(st, t, time_remaining) ==
    IF time_remaining <= 0
    THEN LET r == end_quiz(st, st.task[t].sid, "time_expired")
         IN  CASE r.at = "returned" -> Finished([r.st EXCEPT !.out = st.out], t)
               [] r.at = "send" -> [r.st EXCEPT !.task[t].pc = "end",
                                                !.task[t].time_remaining = time_remaining]
               [] r.at = "disconnect" ->
                      Finished(end_quiz_disconnect(r.st, st.task[t].sid, t), t)
    ELSE Finished(st, t)

\* the loop of run_timer going on while time_remaining >= 0
TimerLoop_inclusive(st, t, time_remaining) ==
    IF time_remaining >= 0
    THEN [st EXCEPT !.task[t].pc = "sleep", !.task[t].time_remaining = time_remaining]
    ELSE TimerExpire(st, t, time_remaining)

\* line 188: the loop condition
TimerLoop(st, t, time_remaining) ==
    IF time_remaining > 0
    THEN [st EXCEPT !.task[t].pc = "sleep", !.task[t].time_remaining = time_remaining]
    ELSE TimerExpire(st, t, time_remaining)

\* lines 200-202: the session is read again after the tick was sent
NoLongerActive(sess, session_id) ==
    sess[session_id] = NoRow \/ sess[session_id].status = "completed"

TimerCheck(st, t, time_remaining) ==
    IF NoLongerActive(st.sessions, st.task[t].sid)
    THEN TimerExpire(st, t, time_remaining)
    ELSE TimerLoop(st, t, time_remaining)

\* lines 182-188: the task's first run
TimerStart(t) ==
    /\ task[t].pc = "new"
    /\ UNCHANGED <<questions, last_call, conn>>
    /\ IF get_session(task[t].sid) = NoRow
       THEN Becomes(Finished([St EXCEPT !.out = NoOut], t))
       ELSE Becomes(TimerLoop([St EXCEPT !.out = NoOut], t,
                              get_session(task[t].sid).time_remaining_seconds))

\* one second passes: sleeping tasks become due and the question
\* timestamps age (get_question_time_spent truncates to whole seconds)
Tick ==
    /\ task' = [t \in Tasks |->
                   IF task[t].pc = "sleep" THEN [task[t] EXCEPT !.pc = "due"] ELSE task[t]]
    /\ question_start_times' =
           [s \in SessionIds |->
               IF question_start_times[s] # NoStamp /\ question_start_times[s] < MaxElapsed
               THEN question_start_times[s] + 1
               ELSE question_start_times[s]]
    /\ clock' = [s \in SessionIds |->
                    IF clock[s] # NoStamp /\ clock[s] < MaxClock
                    THEN clock[s] + 1
                    ELSE clock[s]]
    /\ out' = NoOut
    /\ UNCHANGED <<dbvars, last_call, active_connections, session_tasks, conn, pushed, max_connections, ratevars>>

\* lines 190-197: sleep(1) returned; the time is decremented and persisted
\* and the tick handed to send_message
TimerWake(t) ==
    LET s == task[t].sid
        time_remaining == task[t].time_remaining - 1
        st1 == [St EXCEPT
                  !.sessions = update_session_time(sessions, s, time_remaining),
                  !.out = send_message(active_connections, s,
                                       [type |-> "timer_tick",
                                        time_remaining |-> time_remaining]),
                  !.pushed = IF is_connected(s)
                             THEN [pushed EXCEPT ![s].ticks = Append(@, time_remaining)]
                             ELSE pushed]
    IN  /\ task[t].pc = "due"
        /\ UNCHANGED <<questions, last_call, conn>>
        /\ IF is_connected(s)
           THEN Becomes([st1 EXCEPT !.task[t].pc = "tick",
                                    !.task[t].time_remaining = time_remaining])
           ELSE Becomes(TimerCheck(st1, t, time_remaining))

\* send_json returned (or raised, which send_message swallows)
TimerAfterTick(t) ==
    /\ task[t].pc = "tick"
    /\ UNCHANGED <<questions, last_call, conn>>
    /\ Becomes(TimerCheck([St EXCEPT !.out = NoOut], t, task[t].time_remaining))

\* end_quiz's send returned: line 241, then run_timer returns
TimerEndDone(t) ==
    /\ task[t].pc = "end"
    /\ UNCHANGED <<questions, last_call, conn>>
    /\ Becomes(Finished(end_quiz_disconnect([St EXCEPT !.out = NoOut], task[t].sid, t), t))

-----------------------------------------------------------------------------
(* main.py: websocket_endpoint *)

Tokens == {"", "bad-token"} \cup {SessionToken(s) : s \in SessionIds}

Close(c, s, code) ==
    [type |-> "close", sid |-> s, to |-> c, msg |-> [type |-> "close", code |-> code]]

\* lines 329-352: the admission checks, 0 when the attempt passes them all
AdmissionCode(s, token) ==
    IF get_session(s) = NoRow THEN 4004
    ELSE IF get_session(s).status = "completed" THEN 4003
    ELSE IF token = "" \/ token # SessionToken(s) THEN 4001
    ELSE IF is_connected(s) THEN 4009
    ELSE IF Cardinality({x \in SessionIds : active_connections[x] # None})
              >= max_connections THEN 4029
    ELSE 0

\* a connection attempt up to its first await: close(code), or accept()
Attempt(c, s, token) ==
    /\ conn[c].pc = "idle"
    /\ IF AdmissionCode(s, token) # 0
       THEN /\ out' = Close(c, s, AdmissionCode(s, token))
            /\ UNCHANGED conn
       ELSE /\ out' = NoOut
            /\ conn' = [conn EXCEPT ![c] =
                           [pc |-> "accept", sid |-> s,
                            status |-> get_session(s).status]]
    /\ UNCHANGED <<dbvars, last_call, regvars, task, pushed, max_connections, ratevars, clock>>

\* accept() returned: the connection is registered (line 99) and the
\* connected event handed to send_message (lines 357-377)
Accept(c) ==
    /\ conn[c].pc = "accept"
    /\ active_connections' = [active_connections EXCEPT ![conn[c].sid] = c]
    /\ out' = send_message(active_connections', conn[c].sid,
                           [type |-> "connected", status |-> conn[c].status,
                            question_count |-> Len(get_questions_for_client)])
    /\ conn' = [conn EXCEPT ![c].pc = "greet"]
    /\ UNCHANGED <<dbvars, last_call, session_tasks, question_start_times, task, pushed, max_connections, ratevars, clock>>

\* accept() raised (the client went away during the handshake): the
\* exception leaves websocket_endpoint before its try block
AcceptFailed(c) ==
    /\ conn[c].pc = "accept"
    /\ conn' = [conn EXCEPT ![c] = IdleConn]
    /\ out' = NoOut
    /\ UNCHANGED <<dbvars, last_call, regvars, task, pushed, max_connections, ratevars, clock>>

\* the reconnection test without the look into session_tasks
NeedsTimer_unguarded(status, session_id) == status = "in_progress"

\* lines 380-381: the session was in_progress when the attempt read it and
\* no timer task is registered for it
NeedsTimer(status, session_id) ==
    status = "in_progress" /\ session_tasks[session_id] = None

\* lines 379-384: a session that was in_progress when the attempt read it
\* gets a timer task if none is registered; then the read loop starts
Greeted(c) ==
    LET s == conn[c].sid
        restart == NeedsTimer(conn[c].status, s)
    IN  /\ conn[c].pc = "greet"
        /\ restart => HasUnused(task, session_tasks)
        /\ IF restart
           THEN /\ question_start_times' = start_question_timer(question_start_times, s)
                /\ clock' = Stamped(s)
                /\ task' = create_task(task, session_tasks, s)
                /\ session_tasks' = [session_tasks EXCEPT ![s] = NewTaskId(task, session_tasks)]
           ELSE UNCHANGED <<question_start_times, clock, task, session_tasks>>
        /\ conn' = [conn EXCEPT ![c] = [pc |-> "read", sid |-> s, status |-> None]]
        /\ out' = NoOut
        /\ UNCHANGED <<dbvars, last_call, active_connections, pushed, max_connections, ratevars>>

\* receive_json raised WebSocketDisconnect (lines 392-393), or another
\* exception reached the endpoint (lines 394-396): disconnect and return
Closed(c) ==
    LET d == disconnect(Registry, conn[c].sid, None)
    IN  /\ conn[c].pc = "read"
        /\ active_connections' = d.active_connections
        /\ session_tasks' = d.session_tasks
        /\ question_start_times' = d.question_start_times
        /\ task' = d.task
        /\ conn' = [conn EXCEPT ![c] = IdleConn]
        /\ out' = NoOut
        /\ UNCHANGED <<dbvars, last_call, pushed, max_connections, ratevars, clock>>

-----------------------------------------------------------------------------
(* main.py: handle_message and the handlers *)

\* a JSON value of a message field: its type and its content
JInt(n) == [t |-> "int", n |-> n, s |-> ""]
JBool(b) == [t |-> "bool", n |-> IF b THEN 1 ELSE 0, s |-> ""]
JStr(x) == [t |-> "str", n |-> 0, s |-> x]
JNull == [t |-> "null", n |-> 0, s |-> ""]

\* isinstance(x, int) holds of a bool as well: bool is a subclass of int
IsInt(x) == x.t \in {"int", "bool"}
IsStr(x) == x.t = "str"

Error(ac, session_id, message) ==
    send_message(ac, session_id, [type |-> "error", message |-> message])

Reading(c) == conn[c].pc = "read"

\* lines 442-459
_handle_start_quiz(c) ==
    LET s == conn[c].sid
        create == session_tasks[s] = None
    IN  /\ Reading(c)
        /\ UNCHANGED <<questions, responses, last_call, active_connections, conn, pushed, max_connections, ratevars>>
        /\ IF get_session(s) = NoRow \/ get_session(s).status # "not_started"
           THEN /\ out' = NoOut
                /\ UNCHANGED <<sessions, session_tasks, question_start_times, clock, task>>
           ELSE /\ create => HasUnused(task, session_tasks)
                /\ sessions' = start_session(sessions, s)
                /\ question_start_times' = start_question_timer(question_start_times, s)
                /\ clock' = Stamped(s)
                /\ IF create
                   THEN /\ task' = create_task(task, session_tasks, s)
                        /\ session_tasks' =
                               [session_tasks EXCEPT ![s] = NewTaskId(task, session_tasks)]
                   ELSE UNCHANGED <<task, session_tasks>>
                /\ out' = send_message(active_connections, s,
                                       _send_question(s, questions[1], 1, Len(questions)))

\* lines 462-490
_handle_answer(c, question_id, answer) ==
    LET s == conn[c].sid
        time_spent == get_question_time_spent(s)
    IN  /\ Reading(c)
        /\ UNCHANGED <<questions, sessions, last_call, regvars, conn, task, pushed, max_connections, ratevars, clock>>
        /\ IF ~IsStr(question_id) \/ question_id.s \notin QuestionIds
           THEN /\ out' = Error(active_connections, s, "Invalid question ID")
                /\ UNCHANGED responses
           ELSE IF ~IsStr(answer) \/ answer.s \notin Range(get_question(question_id.s).options)
           THEN /\ out' = Error(active_connections, s, "Invalid answer")
                /\ UNCHANGED responses
           ELSE /\ StoredTime(responses, s, question_id.s) + time_spent <= MaxSpent
                /\ responses' = save_response(responses, s, question_id.s, answer.s,
                                              time_spent)
                /\ out' = send_message(active_connections, s,
                                       [type |-> "answer_received",
                                        question_id |-> question_id.s,
                                        time_spent |-> time_spent])

\* lines 504-509 and 519-524: the shared tail of the navigation handlers
ShowQuestion(c, target) ==
    LET s == conn[c].sid
    IN  /\ sessions' = update_current_question(sessions, s, target)
        /\ question_start_times' = start_question_timer(question_start_times, s)
        /\ clock' = Stamped(s)
        /\ out' = send_message(active_connections, s,
                               _send_question(s, questions[target], target, Len(questions)))

\* lines 493-509
_handle_navigate(c, current, direction) ==
    /\ Reading(c)
    /\ UNCHANGED <<questions, responses, last_call, active_connections, session_tasks,
                   conn, task, pushed, max_connections, ratevars>>
    /\ IF ~IsInt(current) \/ current.n < 1 \/ current.n > Len(questions)
       THEN /\ out' = NoOut
            /\ UNCHANGED <<sessions, question_start_times, clock>>
       ELSE IF current.n + direction < 1 \/ current.n + direction > Len(questions)
       THEN /\ out' = NoOut
            /\ UNCHANGED <<sessions, question_start_times, clock>>
       ELSE ShowQuestion(c, current.n + direction)

\* lines 512-524
_handle_goto(c, target) ==
    /\ Reading(c)
    /\ UNCHANGED <<questions, responses, last_call, active_connections, session_tasks,
                   conn, task, pushed, max_connections, ratevars>>
    /\ IF ~IsInt(target) \/ target.n < 1 \/ target.n > Len(questions)
       THEN /\ out' = NoOut
            /\ UNCHANGED <<sessions, question_start_times, clock>>
       ELSE ShowQuestion(c, target.n)

\* lines 425-426: submit_quiz
_handle_submit(c) ==
    LET r == end_quiz(St, conn[c].sid, "submitted")
    IN  /\ Reading(c)
        /\ UNCHANGED <<questions, last_call>>
        /\ CASE r.at = "returned" -> Becomes(r.st) /\ UNCHANGED conn
             [] r.at = "send" -> Becomes(r.st) /\ conn' = [conn EXCEPT ![c].pc = "end"]
             [] r.at = "disconnect" ->
                    Becomes(end_quiz_disconnect(r.st, conn[c].sid, None)) /\ UNCHANGED conn

\* end_quiz's send returned in the connection's coroutine: line 241, and
\* the read loop goes on
SubmitDone(c) ==
    /\ conn[c].pc = "end"
    /\ UNCHANGED <<questions, last_call>>
    /\ Becomes(end_quiz_disconnect([St EXCEPT !.out = NoOut], conn[c].sid, None))
    /\ conn' = [conn EXCEPT ![c].pc = "read"]

\* the six types handle_message dispatches on (lines 410-426)
KnownTypes ==
    {"start_quiz", "answer", "next_question", "prev_question", "go_to_question",
     "submit_quiz"}

\* lines 428-432: any other type; a missing type is None and printed so
_handle_unknown(c, msg_type) ==
    /\ Reading(c)
    /\ msg_type \notin KnownTypes
    /\ out' = Error(active_connections, conn[c].sid,
                    "Unknown message type: " \o msg_type)
    /\ UNCHANGED <<dbvars, last_call, regvars, conn, task, pushed, max_connections, ratevars, clock>>

\* line 407 on a payload that is not a JSON object: data.get raises outside
\* the handler's try, the endpoint's `except Exception` disconnects
NotAnObject(c) ==
    LET d == disconnect(Registry, conn[c].sid, None)
    IN  /\ Reading(c)
        /\ active_connections' = d.active_connections
        /\ session_tasks' = d.session_tasks
        /\ question_start_times' = d.question_start_times
        /\ task' = d.task
        /\ conn' = [conn EXCEPT ![c] = IdleConn]
        /\ out' = NoOut
        /\ UNCHANGED <<dbvars, last_call, pushed, max_connections, ratevars, clock>>

-----------------------------------------------------------------------------
(* The quiz server: one quiz, one session created over REST, clients that
   connect, play and leave, and the timer tasks *)

Init ==
    /\ questions = SeedQuestions
    /\ sessions = [s \in SessionIds |-> IF s = "s1" THEN NewSession ELSE NoRow]
    /\ responses = {}
    /\ last_call = NoCall
    /\ EngineIdle

\* the types of the messages no handler is dispatched for
TypeInputs == {"bogus_command", None}

Connects(c, ids, tokens) == \E s \in ids, token \in tokens : Attempt(c, s, token)

Lifecycle(c) ==
    \/ _handle_start_quiz(c)
    \/ _handle_submit(c)
    \/ \E msg_type \in TypeInputs : _handle_unknown(c, msg_type)
    \/ NotAnObject(c)
    \/ Closed(c)

Answers(c, ids, answers) == \E q \in ids, a \in answers : _handle_answer(c, q, a)

Navigation(c, numbers) ==
    \/ \E n \in numbers, direction \in {1, -1} : _handle_navigate(c, n, direction)
    \/ \E n \in numbers : _handle_goto(c, n)

ConnStep(c) ==
    \/ Accept(c)
    \/ AcceptFailed(c)
    \/ Greeted(c)
    \/ SubmitDone(c)

TimerStep(t) ==
    \/ TimerStart(t)
    \/ TimerWake(t)
    \/ TimerAfterTick(t)
    \/ TimerEndDone(t)

\* What the clients send: the id of the first question or none, its
\* right answer or none, and question numbers around the first question, a
\* JSON true among them.
QuestionIdInputs == {JStr(questions[1].id), JNull}

AnswerInputs == {JStr(questions[1].correct_answer), JNull}

NumberInputs == {JInt(0), JInt(1), JBool(TRUE), JNull}

Next ==
    \/ \E c \in Conns : Connects(c, SessionIds, Tokens)
    \/ \E c \in Conns : Lifecycle(c)
    \/ \E c \in Conns : Answers(c, QuestionIdInputs, AnswerInputs)
    \/ \E c \in Conns : Navigation(c, NumberInputs)
    \/ \E c \in Conns : ConnStep(c)
    \/ \E t \in Tasks : TimerStep(t)
    \/ Tick

Spec == Init /\ [][Next]_vars

\* The event loop runs every coroutine that can run, and time passes: the
\* steps of the server are fair, the clients' are not.
Fairness ==
    /\ \A c \in Conns : WF_vars(ConnStep(c))
    /\ \A t \in Tasks : WF_vars(TimerStep(t))
    /\ WF_vars(Tick /\ \E t \in Tasks : task[t].pc = "sleep")

FairSpec == Spec /\ Fairness

\* The timer left alone: clients connect and start the quiz and send
\* nothing more, and no connection is closed.
QuietNext ==
    \/ \E c \in Conns : Connects(c, SessionIds, Tokens)
    \/ \E c \in Conns : Accept(c)
    \/ \E c \in Conns : Greeted(c)
    \/ \E c \in Conns : _handle_start_quiz(c)
    \/ \E t \in Tasks : TimerStep(t)
    \/ Tick

FairQuiet ==
    /\ Init
    /\ [][QuietNext]_vars
    /\ \A c \in Conns : WF_vars(Accept(c) \/ Greeted(c))
    /\ \A t \in Tasks : WF_vars(TimerStep(t))
    /\ WF_vars(Tick /\ \E t \in Tasks : task[t].pc = "sleep")

\* Two quizzes at once: each client has a session of its own, and the
\* server was started with a connection ceiling of SmallLimit or with the
\* default one. Both clients connect, start, submit and leave; the first
\* one also answers the first question and sends a payload that is no object.
Home(c) == IF c = "c1" THEN "s1" ELSE "s2"

TwoInit ==
    /\ questions = SeedQuestions
    /\ sessions = [s \in SessionIds |-> NewSession]
    /\ responses = {}
    /\ last_call = NoCall
    /\ ManagerIdle
    /\ LimiterIdle
    /\ max_connections \in {SmallLimit, MAX_CONNECTIONS}

TwoNext ==
    \/ \E c \in Conns : Connects(c, {Home(c)}, {SessionToken(Home(c))})
    \/ \E c \in Conns : _handle_start_quiz(c)
    \/ \E c \in Conns : _handle_submit(c)
    \/ \E c \in Conns : Closed(c)
    \/ \E c \in Conns : ConnStep(c)
    \/ Answers("c1", {JStr(questions[1].id)}, {JStr(questions[1].correct_answer)})
    \/ NotAnObject("c1")
    \/ \E t \in Tasks : TimerStep(t)
    \/ Tick

SpecTwo == TwoInit /\ [][TwoNext]_vars

\* One client answering at will: any question of the quiz, with any option
\* of the quiz, while the timer runs; it submits or lets the time run out.
AllQuestionIds == {JStr(questions[i].id) : i \in DOMAIN questions}

AllOptions ==
    {JStr(questions[i].options[k]) : i \in DOMAIN questions, k \in 1..2}

ScoreNext ==
    \/ Connects("c1", {"s1"}, {SessionToken("s1")})
    \/ ConnStep("c1")
    \/ _handle_start_quiz("c1")
    \/ _handle_submit("c1")
    \/ Closed("c1")
    \/ Answers("c1", AllQuestionIds, AllOptions)
    \/ \E t \in Tasks : TimerStep(t)
    \/ Tick

SpecScore == Init /\ [][ScoreNext]_vars

\* The rate limiter called at will by two clients, as the tests call it,
\* while time passes.
CheckRateLimit(client_ip) ==
    LET r == _check_rate_limit(_rate_limit_store, client_ip, now)
    IN  /\ _rate_limit_store' = r.store
        /\ granted' = IF r.result
                      THEN [granted EXCEPT ![client_ip] = Append(@, now)]
                      ELSE granted
        /\ last_call' = [op |-> "_check_rate_limit", client_ip |-> client_ip,
                         result |-> r.result]
        /\ UNCHANGED <<dbvars, active_connections, session_tasks, question_start_times,
                       conn, task, out, pushed, clock, max_connections, now>>

TimePasses ==
    /\ now < MaxNow
    /\ now' = now + 1
    /\ UNCHANGED <<dbvars, last_call, active_connections, session_tasks,
                   question_start_times, conn, task, out, pushed, clock,
                   max_connections, _rate_limit_store, granted>>

RateNext ==
    \/ \E client_ip \in ClientIps : CheckRateLimit(client_ip)
    \/ TimePasses

SpecRate == Init /\ [][RateNext]_vars

-----------------------------------------------------------------------------
(* Claims about the session lifecycle *)

Exists(s) == sessions[s] # NoRow

Status(s) == IF Exists(s) THEN sessions[s].status ELSE None

StatusStep(a, b) ==
    \/ a = b
    \/ a = "not_started" /\ b = "in_progress"
    \/ a = "in_progress" /\ b = "completed"

\* C1: the persisted status of a session only ever changes from not_started
\* to in_progress or from in_progress to completed: never backward, and
\* never from not_started directly to completed.
C1_StatusMonotone ==
    [][\A s \in SessionIds : StatusStep(Status(s), Status(s)')]_vars

\* C2: completion takes effect at most once: once a session is completed
\* its status, completed_at and score are never written again, and at most
\* one quiz_complete event is pushed for it.
C2_CompletesOnce ==
    /\ [][\A s \in SessionIds :
            Status(s) = "completed" =>
                /\ Status(s)' = "completed"
                /\ sessions'[s].completed_at = sessions[s].completed_at
                /\ sessions'[s].score = sessions[s].score]_vars
    /\ [](\A s \in SessionIds : Len(pushed[s].complete) <= 1)

\* a submit has completed the session while the timer, at zero, is about
\* to call end_quiz: the race is on and the completion was pushed once
C2_Witness ==
    /\ Status("s1") = "completed"
    /\ sessions["s1"].completed_at = 1
    /\ pushed["s1"].complete = <<"submitted">>
    /\ \E t \in Tasks :
          task[t].pc = "tick" /\ task[t].sid = "s1" /\ task[t].time_remaining = 0

Admitted(c, s) == conn[c].sid = s /\ conn[c].pc \in {"greet", "read", "end"}

\* C3: of the connection attempts in flight for one session at most one is
\* admitted: never are two accepted connections open for the same session.
C3_OneAdmitted ==
    \A s \in SessionIds : Cardinality({c \in Conns : Admitted(c, s)}) <= 1

Attached(s) == active_connections[s] # None

\* C4: a started session whose connection stays attached is eventually
\* completed.
C4_EventuallyCompleted ==
    \A s \in SessionIds :
        (Status(s) = "in_progress" /\ Attached(s))
            ~> (Status(s) = "completed" \/ ~Attached(s))

Countdown == [i \in 1..TimeLimit |-> TimeLimit - i]

IsPrefix(a, b) == Len(a) <= Len(b) /\ a = SubSeq(b, 1, Len(a))

\* C5: a started session left alone by its attached client is pushed the
\* ticks TimeLimit-1, ..., 0 in that order, each the value just persisted,
\* and then quiz_complete with reason time_expired, once, and nothing else
\* of either kind.
C5_TimerRunsOut ==
    /\ [](IsPrefix(pushed["s1"].ticks, Countdown))
    /\ [](pushed["s1"].complete \in {<<>>, <<"time_expired">>})
    /\ [](pushed["s1"].complete # <<>> => pushed["s1"].ticks = Countdown)
    /\ [][pushed["s1"].ticks' # pushed["s1"].ticks =>
            /\ pushed["s1"].ticks' =
                   Append(pushed["s1"].ticks, sessions'["s1"].time_remaining_seconds)
            /\ sessions'["s1"].time_remaining_seconds =
                   sessions["s1"].time_remaining_seconds - 1]_vars
    /\ (Status("s1") = "in_progress")
           ~> (pushed["s1"].ticks = Countdown
                   /\ pushed["s1"].complete = <<"time_expired">>)

C5_Witness ==
    /\ Status("s1") = "completed"
    /\ pushed["s1"].ticks = Countdown
    /\ pushed["s1"].complete = <<"time_expired">>
    /\ sessions["s1"].time_remaining_seconds = 0

-----------------------------------------------------------------------------
(* Claims about the database layer (checked under SpecDb) *)

StoredRows(session_id) == {r \in responses : r.session_id = session_id}

RECURSIVE PointsOf(_)
\* the point values of a set of questions of the quiz, added up
PointsOf(ids) ==
    IF ids = {} THEN 0
    ELSE LET q == CHOOSE x \in ids : TRUE
         IN  get_question(q).points + PointsOf(ids \ {q})

ScoreCalled == last_call.op = "calculate_score"

\* C6 (as claimed): possible is the sum of the point values of all
\* questions of the quiz, whichever subset the session answered.
C6_PossibleIsQuizTotal ==
    ScoreCalled => last_call.result.possible = PointsOf(QuestionIds)

\* the scenario of C7: questions worth {1,1,2}, the first answered
\* right, the second wrong, the third unanswered
Scenario112(session_id) ==
    /\ questions = SeedQuestions
    /\ {<<r.question_id, r.answer>> : r \in StoredRows(session_id)}
         = {<<"tq1", "2">>, <<"tq2", "2">>}

\* C7 (as claimed): earned, answered and correct are computed from the
\* stored responses, and the {1,1,2} scenario scores earned 1, possible 4,
\* answered 2, correct 1, percentage 25.
C7_ScoreOfStoredResponses ==
    ScoreCalled =>
        LET rows == StoredRows(last_call.session_id)
            right == {r \in rows : r.is_correct = 1}
            res == last_call.result
        IN  /\ res.earned = PointsOf({r.question_id : r \in right})
            /\ res.answered = Cardinality(rows)
            /\ res.correct = Cardinality(right)
            /\ Scenario112(last_call.session_id) =>
                  res = [earned |-> 1, possible |-> 4, answered |-> 2,
                         correct |-> 1, percentage |-> FloatOfInt(25)]

AnsweredAll(session_id) ==
    {r.question_id : r \in StoredRows(session_id)} = QuestionIds

\* C8 (as claimed), on the sessions that answered every question, where
\* possible is the quiz's total whichever way it is summed:
\* percentage * possible == earned * 100 when possible > 0.
C8_ExactScoreLaw ==
    (ScoreCalled /\ AnsweredAll(last_call.session_id)) =>
        LET res == last_call.result
        IN  res.possible > 0 =>
              FMulInt(res.percentage, res.possible) = FloatOfInt(res.earned * 100)

\* the product x * n and the integer m agree to 48 significant binary digits
AgreesWith(x, n, m) ==
    IF m = 0 THEN x = FZero
    ELSE /\ x # FZero
         /\ RoundTo(ExactMulInt(x, n).bits, ExactMulInt(x, n).exp, FALSE, 48)
              = RoundTo(IntBits(m), Len(IntBits(m)) - 1, FALSE, 48)

\* C8 (amended): percentage is the double earned / possible * 100, so
\* percentage * possible equals earned * 100 up to the rounding of double
\* arithmetic (to 48 significant bits), and exactly when possible is 1, 2
\* or 4; it is 0 when possible is 0, where earned and answered are 0 too
\* (so for a session with no responses); it is always within 0..100.
C8_ScoreLaw ==
    ScoreCalled =>
        LET res == last_call.result
        IN  /\ res.possible > 0 =>
                  AgreesWith(res.percentage, res.possible, res.earned * 100)
            /\ res.possible \in {1, 2, 4} =>
                  FMulInt(res.percentage, res.possible) = FloatOfInt(res.earned * 100)
            /\ res.possible = 0 =>
                  res.percentage = FZero /\ res.earned = 0 /\ res.answered = 0
            /\ StoredRows(last_call.session_id) = {} => res.possible = 0
            /\ FLeq(res.percentage, FloatOfInt(100))

\* a score whose percentage is a rounded double: 2 of 3 points
C8_Witness ==
    /\ ScoreCalled
    /\ last_call.result.earned = 2 /\ last_call.result.possible = 3
    /\ FMulInt(last_call.result.percentage, 3) # FloatOfInt(200)

\* C9: there is at most one stored response per (session, question); its
\* is_correct is 1 exactly when its answer equals the question's
\* correct_answer; a pair's response changes only by a save_response call for
\* that pair, after which it holds the answer of that call.
C9_OneResponsePerPair ==
    /\ [](/\ \A r1, r2 \in responses :
                (r1.session_id = r2.session_id /\ r1.question_id = r2.question_id)
                    => r1 = r2
          /\ \A r \in responses :
                /\ r.is_correct \in {0, 1}
                /\ r.is_correct = 1 <=>
                      r.answer = get_question(r.question_id).correct_answer
          /\ last_call.op = "save_response" =>
                \E r \in RowsOf(responses, last_call.session_id, last_call.question_id) :
                    r.answer = last_call.answer)
    /\ [][\A s \in SessionIds : \A q \in QuestionIds :
            RowsOf(responses, s, q)' # RowsOf(responses, s, q) =>
                /\ last_call'.op = "save_response"
                /\ last_call'.session_id = s /\ last_call'.question_id = q]_vars

\* a question answered wrong and then right: one row, the second answer
C9_Witness ==
    /\ last_call.op = "save_response" /\ last_call.existed
    /\ \E r \in RowsOf(responses, last_call.session_id, last_call.question_id) :
          r.answer = last_call.answer /\ r.is_correct = 1

----------------------------------------------------------------------------
\* Engine claims: time, start, navigation, errors, admission

RECURSIVE TimeOf(_)
\* the time_spent_seconds of a set of response rows, added up
TimeOf(rows) ==
    IF rows = {} THEN 0
    ELSE LET r == CHOOSE x \in rows : TRUE
         IN  r.time_spent_seconds + TimeOf(rows \ {r})

TimeSpentTotal(session_id) == TimeOf(StoredRows(session_id))

\* C12: the sum of time_spent over a session's stored responses never
\* exceeds the wall-clock seconds elapsed since the session's first
\* question-start stamp (checked while the clock is followed exactly).
C12_TimeNotDoubleCounted ==
    \A s \in SessionIds :
        clock[s] < MaxClock =>
            TimeSpentTotal(s) <= (IF clock[s] = NoStamp THEN 0 ELSE clock[s])

NotStarted(session_id) ==
    get_session(session_id) # NoRow /\ get_session(session_id).status = "not_started"

\* out holds a question event for the given ordinal
QuestionPushed(o, number) ==
    /\ o.type = "event"
    /\ o.msg.type = "question"
    /\ o.msg.question_number = number

\* C13: start_quiz on a not_started session marks it in_progress and pushes
\* one question event for ordinal 1; on any other status it changes no
\* persisted field, spawns no timer task and pushes no event.
C13_StartOnlyFromNotStarted ==
    [][\A c \in Conns :
          _handle_start_quiz(c) =>
              IF NotStarted(conn[c].sid)
              THEN /\ sessions'[conn[c].sid].status = "in_progress"
                   /\ QuestionPushed(out', 1)
              ELSE /\ sessions' = sessions
                   /\ session_tasks' = session_tasks
                   /\ task' = task
                   /\ out' = NoOut]_vars

\* a JSON integer (not a boolean, string or null) between lo and hi
IntegerIn(x, lo, hi) == x.t = "int" /\ lo <= x.n /\ x.n <= hi

\* a step that pushes no event and changes neither persisted state nor the
\* registry
Ignored ==
    /\ out' = NoOut
    /\ UNCHANGED <<dbvars, regvars>>

\* C14: next_question (prev_question) with an integer current k whose
\* neighbour k+1 (k-1) is a question of the quiz persists that neighbour as
\* current_question and pushes one question event with its ordinal; every
\* other current pushes no event and changes no state.
C14_Navigation ==
    [][\A c \in Conns, current \in NumberInputs, direction \in {1, -1} :
          _handle_navigate(c, current, direction) =>
              IF /\ IntegerIn(current, 1, Len(questions))
                 /\ current.n + direction \in 1..Len(questions)
              THEN /\ sessions'[conn[c].sid].current_question = current.n + direction
                   /\ QuestionPushed(out', current.n + direction)
              ELSE Ignored]_vars

\* out holds a question event for the given ordinal of a quiz of n questions
QuestionOfPushed(o, number, n) ==
    /\ QuestionPushed(o, number)
    /\ o.msg.total_questions = n

\* C15: go_to_question with an integer m between 1 and the number of
\* questions n persists current_question = m and pushes one question event
\* with ordinal m and total_questions n; every other value pushes no event
\* and changes no state.
C15_GoTo ==
    [][\A c \in Conns, target \in NumberInputs :
          _handle_goto(c, target) =>
              IF IntegerIn(target, 1, Len(questions))
              THEN /\ sessions'[conn[c].sid].current_question = target.n
                   /\ QuestionOfPushed(out', target.n, Len(questions))
              ELSE Ignored]_vars

\* the answer stored for the session and the question, None without one
StoredAnswer(session_id, question_id) ==
    IF RowsOf(responses, session_id, question_id) = {} THEN None
    ELSE (CHOOSE r \in RowsOf(responses, session_id, question_id) : TRUE).answer

IsQuestionEvent(o) == o.type = "event" /\ o.msg.type = "question"

\* C16: every question event pushed for a session carries existing_answer
\* equal to the answer stored for that session and that question, or null
\* when no response is stored for it.
C16_ExistingAnswer ==
    IsQuestionEvent(out) =>
        out.msg.existing_answer = StoredAnswer(out.sid, out.msg.question.id)

\* a question is shown again after it was answered
C16_Witness ==
    /\ IsQuestionEvent(out)
    /\ out.msg.existing_answer # None
    /\ out.msg.existing_answer = StoredAnswer(out.sid, out.msg.question.id)

\* out holds an error event with the given message
ErrorPushed(o, message) ==
    /\ o.type = "event"
    /\ o.msg = [type |-> "error", message |-> message]

KnownQuestion(question_id) == IsStr(question_id) /\ question_id.s \in QuestionIds

KnownOption(question_id, answer) ==
    IsStr(answer) /\ answer.s \in Range(get_question(question_id.s).options)

\* C17: an answer whose question_id is not a string of the quiz pushes the
\* error "Invalid question ID", one whose answer is not an option string of
\* the question pushes the error "Invalid answer"; both leave responses,
\* sessions and the registry as they were.
C17_InvalidAnswerRejected ==
    [][\A c \in Conns, question_id \in QuestionIdInputs, answer \in AnswerInputs :
          (/\ _handle_answer(c, question_id, answer)
           /\ ~(KnownQuestion(question_id) /\ KnownOption(question_id, answer))) =>
              /\ ErrorPushed(out', IF KnownQuestion(question_id)
                                    THEN "Invalid answer"
                                    ELSE "Invalid question ID")
              /\ UNCHANGED <<dbvars, regvars>>]_vars

\* C18: a message whose type is none of the six known kinds pushes one
\* error event naming the type and changes neither persisted state nor the
\* registry, and the connection goes on reading.
C18_UnknownType ==
    [][\A c \in Conns, msg_type \in TypeInputs :
          _handle_unknown(c, msg_type) =>
              /\ ErrorPushed(out', "Unknown message type: " \o msg_type)
              /\ UNCHANGED <<dbvars, regvars>>
              /\ Reading(c)']_vars

\* the connection handles a malformed message: a field of the wrong type,
\* an unknown or missing type, or a payload that is not a JSON object
Malformed(c) ==
    \/ \E answer \in AnswerInputs : _handle_answer(c, JNull, answer)
    \/ \E question_id \in QuestionIdInputs : _handle_answer(c, question_id, JNull)
    \/ \E direction \in {1, -1} : _handle_navigate(c, JNull, direction)
    \/ _handle_goto(c, JNull)
    \/ \E msg_type \in TypeInputs : _handle_unknown(c, msg_type)
    \/ NotAnObject(c)

\* C19: no malformed inbound message ends the connection's read loop or
\* removes its session's registry entry.
C19_MalformedNeverTerminates ==
    [][\A c \in Conns :
          Malformed(c) =>
              /\ Reading(c)'
              /\ active_connections'[conn[c].sid] = active_connections[conn[c].sid]]_vars

Registered == {s \in SessionIds : active_connections[s] # None}

\* the close codes of the causes that apply to an attempt
Causes(s, token) ==
    {code \in {4004, 4003, 4001, 4009, 4029} :
        \/ code = 4004 /\ ~Exists(s)
        \/ code = 4003 /\ Status(s) = "completed"
        \/ code = 4001 /\ Exists(s) /\ token # SessionToken(s)
        \/ code = 4009 /\ s \in Registered
        \/ code = 4029 /\ Cardinality(Registered) >= max_connections}

\* an attempt is let through to accept() exactly when no cause applies, and
\* is otherwise closed with the code of a cause that applies, changing
\* neither persisted state nor the registry and pushing no event
AttemptDecided(c, s, token) ==
    IF Causes(s, token) = {}
    THEN conn'[c].pc = "accept" /\ conn'[c].sid = s
    ELSE /\ out'.type = "close" /\ out'.to = c
         /\ out'.msg.code \in Causes(s, token)
         /\ UNCHANGED <<dbvars, regvars, conn>>

\* C20: an attach attempt is admitted only if the session exists, is not
\* completed, the token is the session's, no connection is registered for
\* the session and the registry is below MAX_CONNECTIONS; otherwise it is
\* closed with its cause's code and changes nothing; a connection is never
\* registered for a completed session or beside a registered one.
C20_Admission ==
    [][/\ \A c \in Conns, s \in SessionIds, token \in Tokens :
              Attempt(c, s, token) => AttemptDecided(c, s, token)
       /\ \A c \in Conns :
              Accept(c) => /\ Status(conn[c].sid) # "completed"
                           /\ conn[c].sid \notin Registered]_vars

----------------------------------------------------------------------------
\* Engine claims: what is revealed, the timer, results, completed sessions

\* the message names a correct answer: in a field of its own, in the
\* question it shows, or in a results list
RevealsCorrectAnswer(msg) ==
    \/ "correct_answer" \in DOMAIN msg
    \/ "results" \in DOMAIN msg
    \/ "question" \in DOMAIN msg /\ "correct_answer" \in DOMAIN msg.question

\* C21: no event other than quiz_complete carries a correct answer, and
\* quiz_complete is pushed only for a completed session.
C21_AnswersOnlyInResults ==
    out.type = "event" =>
        IF out.msg.type = "quiz_complete"
        THEN Status(out.sid) = "completed"
        ELSE ~RevealsCorrectAnswer(out.msg)

\* a question of an answered quiz in progress is pushed without its answer
C21_Witness ==
    /\ IsQuestionEvent(out)
    /\ Status(out.sid) = "in_progress"
    /\ StoredRows(out.sid) # {}
    /\ ~RevealsCorrectAnswer(out.msg)

\* the task is the one registered for its session
RegisteredTask(t) == task[t].sid # None /\ session_tasks[task[t].sid] = t

\* C22: a timer task taken out of the registry by disconnect is ended at
\* whichever suspension point it is in (before its first run, in sleep, in
\* the send of a tick or of quiz_complete): every task that can still run
\* is the registered task of its session, so a cancelled task neither
\* decrements, persists, ticks nor completes.
C22_CancelledTaskStops ==
    /\ [](\A t \in Tasks : task[t].pc \in Live => RegisteredTask(t))
    /\ [][\A s \in SessionIds :
              (session_tasks[s] # None /\ session_tasks'[s] # session_tasks[s]) =>
                  task'[session_tasks[s]].pc \notin Live]_vars

\* a task cancelled in the middle of the countdown
C22_Witness ==
    \E t \in Tasks :
        /\ task[t].pc = "cancelled"
        /\ session_tasks[task[t].sid] = None
        /\ Status(task[t].sid) = "in_progress"
        /\ sessions[task[t].sid].time_remaining_seconds = TimeLimit - 1

\* the timer tasks of a session that are running or can still run
Ticking(s) == {t \in Tasks : task[t].sid = s /\ task[t].pc \in Live}

\* C23: at every moment at most one timer task is registered and ticking
\* for a session.
C23_OneTimerPerSession ==
    \A s \in SessionIds :
        /\ Cardinality(Ticking(s)) <= 1
        /\ Ticking(s) \subseteq {session_tasks[s]}

\* two connections read a session whose countdown was restarted for one
\* of them
C23_Witness ==
    \E s \in SessionIds, t \in Tasks :
        /\ Ticking(s) = {t}
        /\ sessions[s].time_remaining_seconds < TimeLimit
        /\ \A c \in Conns : conn[c].sid = s /\ Reading(c)

\* the connection that attached to an in_progress session without timer
\* task gets one, not yet run, and the question-start stamp is reset
TimerRestarted(c) ==
    LET s == conn[c].sid
    IN  (Status(s) = "in_progress" /\ session_tasks[s] = None) =>
            /\ session_tasks'[s] # None
            /\ task'[session_tasks'[s]] = [pc |-> "new", sid |-> s, time_remaining |-> 0]
            /\ question_start_times'[s] = 0

\* a timer task's first run takes up the persisted remaining time, and
\* completes the session at once, without a tick, when that is 0
TimerResumed(t) ==
    LET s == task[t].sid
    IN  Status(s) = "in_progress" =>
            IF sessions[s].time_remaining_seconds > 0
            THEN /\ task'[t].pc = "sleep"
                 /\ task'[t].time_remaining = sessions[s].time_remaining_seconds
                 /\ sessions' = sessions
            ELSE /\ Status(s)' = "completed"
                 /\ pushed'[s].ticks = pushed[s].ticks
                 /\ is_connected(s) =>
                        pushed'[s].complete = Append(pushed[s].complete, "time_expired")

\* C24: a connection attaching to an in_progress session for which no
\* timer task is registered starts one and resets the question-start
\* stamp; the task resumes from the persisted time_remaining_seconds, and
\* completes the session with reason time_expired without a tick when
\* that is 0.
C24_TimerResumes ==
    [][/\ \A c \in Conns : Greeted(c) => TimerRestarted(c)
       /\ \A t \in Tasks : TimerStart(t) => TimerResumed(t)]_vars

Remaining(s) == sessions[s].time_remaining_seconds

InProgress(s) == Status(s) = "in_progress"

\* C25: while a session is in_progress its persisted
\* time_remaining_seconds never increases and is never below 0, and each
\* timer tick lowers it by exactly 1.
C25_RemainingTimeDecreases ==
    /\ [](\A s \in SessionIds : InProgress(s) => Remaining(s) >= 0)
    /\ [][\A s \in SessionIds :
              (InProgress(s) /\ InProgress(s)') => Remaining(s)' <= Remaining(s)]_vars
    /\ [][\A t \in Tasks :
              (TimerWake(t) /\ InProgress(task[t].sid)) =>
                  Remaining(task[t].sid)' = Remaining(task[t].sid) - 1]_vars

\* the countdown of a session in progress ran down to its last tick
C25_Witness ==
    \E s \in SessionIds, t \in Tasks :
        /\ InProgress(s)
        /\ Remaining(s) = 0
        /\ task[t].sid = s /\ task[t].pc = "tick"
        /\ pushed[s].ticks = Countdown

\* the step marks the session completed
Completes(s) == Status(s) # "completed" /\ Status(s)' = "completed"

\* C26: when a session is completed with reason time_expired, that is by
\* its timer task, its persisted time_remaining_seconds is exactly 0 at
\* the moment it is marked completed.
C26_ExpiresAtZero ==
    [][\A s \in SessionIds :
          /\ (Completes(s) /\ \E t \in Tasks : task[t].sid = s /\ TimerStep(t)) =>
                 Remaining(s)' = 0
          /\ pushed'[s].complete = Append(pushed[s].complete, "time_expired") =>
                 Completes(s) /\ Remaining(s)' = 0]_vars

\* a quiz with a stored answer ran out of time
C26_Witness ==
    \E s \in SessionIds :
        /\ Status(s) = "completed"
        /\ pushed[s].complete = <<"time_expired">>
        /\ StoredRows(s) # {}
        /\ Remaining(s) = 0

\* the response stored for the session and the question, NoRow without one
StoredResponse(session_id, question_id) ==
    IF RowsOf(responses, session_id, question_id) = {} THEN NoRow
    ELSE CHOOSE r \in RowsOf(responses, session_id, question_id) : TRUE

\* the entry a results list owes to a question
ResultOwed(session_id, q) ==
    LET r == StoredResponse(session_id, q.id)
    IN  IF r = NoRow
        THEN [question_number |-> q.question_number, correct_answer |-> q.correct_answer,
              your_answer |-> None, is_correct |-> FALSE, time_spent |-> 0]
        ELSE [question_number |-> q.question_number, correct_answer |-> q.correct_answer,
              your_answer |-> r.answer, is_correct |-> (r.is_correct = 1),
              time_spent |-> r.time_spent_seconds]

IsQuizComplete(o) == o.type = "event" /\ o.msg.type = "quiz_complete"

\* C27: the results of a quiz_complete event hold one entry per question
\* of the quiz, in increasing question ordinal; an answered question
\* carries the stored answer, correctness flag and accumulated time, an
\* unanswered one a null answer, is_correct false and time_spent 0.
C27_ResultsPerQuestion ==
    IsQuizComplete(out) =>
        LET results == out.msg.results
        IN  /\ Len(results) = Len(questions)
            /\ \A i \in DOMAIN results :
                   results[i] = ResultOwed(out.sid, questions[i])
            /\ \A i, j \in DOMAIN results :
                   i < j => results[i].question_number < results[j].question_number

\* results of a quiz with an answered and an unanswered question
C27_Witness ==
    /\ IsQuizComplete(out)
    /\ \E i \in DOMAIN out.msg.results :
           out.msg.results[i].your_answer # None /\ out.msg.results[i].time_spent > 0
    /\ \E i \in DOMAIN out.msg.results : out.msg.results[i].your_answer = None

\* C28: once a session is completed, its stored responses, score,
\* current_question and time_remaining_seconds never change again.
C28_CompletedIsFrozen ==
    [][\A s \in SessionIds :
          Status(s) = "completed" =>
              /\ StoredRows(s)' = StoredRows(s)
              /\ sessions'[s].score = sessions[s].score
              /\ sessions'[s].current_question = sessions[s].current_question
              /\ Remaining(s)' = Remaining(s)]_vars

\* C29: while a session is not_started no response is stored for it and no
\* question event is pushed to its client.
C29_NothingBeforeStart ==
    \A s \in SessionIds :
        Status(s) = "not_started" =>
            /\ StoredRows(s) = {}
            /\ ~(IsQuestionEvent(out) /\ out.sid = s)

\* the step pushes an event of one of the types to the session's client
Pushes(s, types) ==
    /\ out'.type = "event"
    /\ out'.sid = s
    /\ out'.msg.type \in types
    /\ out' # out \/ pushed'[s] # pushed[s]

\* C30: quiz_complete is the last event pushed to a session's client: once
\* it has been pushed, no timer_tick, question, answer_received or error
\* event is pushed for the session.
C30_CompleteIsLast ==
    [][\A s \in SessionIds :
          pushed[s].complete # <<>> =>
              ~Pushes(s, {"timer_tick", "question", "answer_received", "error"})]_vars

----------------------------------------------------------------------------
\* Engine claims: the registry, isolation, the score of an event

\* C31: whenever a timer task is registered for a session a connection is
\* registered for it too, and no timer task can run for a session without
\* registered connection.
C31_NoOrphanedTimer ==
    \A s \in SessionIds :
        ~Attached(s) => session_tasks[s] = None /\ Ticking(s) = {}

\* C32: the number of registered connections never exceeds the connection
\* ceiling, also while attempts for different sessions are in flight together.
C32_ConnectionCeiling ==
    Cardinality({s \in SessionIds : active_connections[s] # None}) <= max_connections

\* C33: while no connection is registered for a session its stored remaining
\* time and status stay as they are: an in_progress session whose client
\* never comes back keeps its time and is never completed.
C33_FrozenWhileDetached ==
    [][\A s \in SessionIds :
          Exists(s) /\ ~Attached(s) =>
              /\ sessions'[s].status = sessions[s].status
              /\ sessions'[s].time_remaining_seconds = sessions[s].time_remaining_seconds]_vars

\* what the database and the manager hold of one session
Persisted(s) ==
    [row |-> sessions[s], responses |-> {r \in responses : r.session_id = s}]

Held(s) ==
    [connection |-> active_connections[s], timer |-> session_tasks[s],
     stamp |-> question_start_times[s],
     tasks |-> {<<t, task[t]>> : t \in {x \in Tasks : task[x].sid = s /\ task[x].pc \in Live}}]

\* a step of the session: an attempt to attach to it, a step of a connection
\* attached to it (a message, its close, a failure), a step of its timer
StepOf(s) ==
    \/ \E c \in Conns, token \in Tokens : Attempt(c, s, token)
    \/ \E c \in Conns :
           /\ conn[c].sid = s
           /\ \/ Lifecycle(c)
              \/ Answers(c, QuestionIdInputs, AnswerInputs)
              \/ Navigation(c, NumberInputs)
              \/ ConnStep(c)
    \/ \E t \in Tasks : task[t].sid = s /\ TimerStep(t)

\* C34: sessions are isolated: no message, tick, completion, disconnect or
\* failure of one session changes the stored row (status, remaining time,
\* current question, score) or the responses of another session, nor its
\* connection, timer task or question-start stamp.
C34_Isolation ==
    [][\A s \in SessionIds :
          StepOf(s) =>
              \A x \in SessionIds \ {s} :
                  /\ Persisted(x)' = Persisted(x)
                  /\ Held(x)' = Held(x)]_vars

\* the first session was completed, its answer stored and its connection
\* removed, while the second one is running: attached, ticking, stamped
C34_Witness ==
    /\ sessions["s1"].status = "completed"
    /\ \E r \in responses : r.session_id = "s1"
    /\ ~Attached("s1")
    /\ sessions["s2"].status = "in_progress"
    /\ sessions["s2"].time_remaining_seconds < TimeLimit
    /\ Attached("s2")
    /\ session_tasks["s2"] # None
    /\ question_start_times["s2"] # NoStamp

\* C35: the score and the results of a quiz_complete event are computed
\* from the same responses, those stored when the event is sent: the score
\* counts as answered the results with an answer and as correct the results
\* marked correct, and the stored score is the percentage of the event.
C35_ScoreMatchesResults ==
    IsQuizComplete(out) =>
        LET score == out.msg.score
            results == out.msg.results
        IN  /\ score = calculate_score(responses, out.sid)
            /\ results = Results(out.sid)
            /\ score.answered =
                   Cardinality({i \in DOMAIN results : results[i].your_answer # None})
            /\ score.correct =
                   Cardinality({i \in DOMAIN results : results[i].is_correct})
            /\ sessions[out.sid].score = score.percentage

\* an event for a right answer, a wrong one and a question left out
C35_Witness ==
    /\ IsQuizComplete(out)
    /\ out.msg.score.answered = 2
    /\ out.msg.score.correct = 1
    /\ \E i \in DOMAIN out.msg.results : out.msg.results[i].your_answer = None

\* who may run disconnect: a connection's coroutine or a timer task
Callers == {None} \cup Tasks

NoEntry(reg, s) ==
    /\ reg.active_connections[s] = None
    /\ reg.session_tasks[s] = None
    /\ reg.question_start_times[s] = NoStamp

FinishedTimer(reg, s) ==
    reg.session_tasks[s] # None /\ reg.task[reg.session_tasks[s]].pc \notin Live

\* C36: disconnect leaves the session without connection, timer task and
\* question-start stamp; a second call changes nothing more, a call without
\* any entry changes nothing at all, and a finished timer task is removed
\* from the map and otherwise left as it is.
C36_DisconnectIdempotent ==
    \A s \in SessionIds, self \in Callers :
        LET once == disconnect(Registry, s, self)
        IN  /\ NoEntry(once, s)
            /\ disconnect(once, s, self) = once
            /\ NoEntry(Registry, s) => once = Registry
            /\ FinishedTimer(Registry, s) => once.task = task
            /\ \A x \in SessionIds \ {s} :
                   /\ once.active_connections[x] = active_connections[x]
                   /\ once.session_tasks[x] = session_tasks[x]
                   /\ once.question_start_times[x] = question_start_times[x]

\* a timer task that has finished is still registered, beside a connection
\* and a stamp
C36_Witness ==
    \E s \in SessionIds :
        /\ FinishedTimer(Registry, s)
        /\ active_connections[s] # None
        /\ question_start_times[s] # NoStamp

\* completed_at counts the writes of the column: 0 is the null of a new row
IsNull(s, column) ==
    IF column = "score" THEN sessions[s].score = NoScore
    ELSE sessions[s].completed_at = 0

\* C37: the stored score and completed_at of a session are non-null exactly
\* when its status is completed, and null while it is not_started or
\* in_progress.
C37_ScoreIffCompleted ==
    \A s \in SessionIds :
        Exists(s) =>
            /\ IsNull(s, "score") <=> sessions[s].status # "completed"
            /\ IsNull(s, "completed_at") <=> sessions[s].status # "completed"

\* a session completed without any response: its score is stored, as zero
C37_Witness ==
    \E s \in SessionIds :
        /\ Exists(s)
        /\ sessions[s].status = "completed"
        /\ sessions[s].score = FZero
        /\ ~IsNull(s, "completed_at")
        /\ \A r \in responses : r.session_id # s

-----------------------------------------------------------------------------
\* Claims about the rate limiter

\* the calls of the client that returned True at a time within lo..hi
GrantsIn(client_ip, lo, hi) ==
    Cardinality({i \in DOMAIN granted[client_ip] :
                    lo <= granted[client_ip][i] /\ granted[client_ip][i] <= hi})

\* the seconds of the window that ends at `time`: an entry exactly
\* RATE_LIMIT_WINDOW old is outside
WindowStart(time) == time - RATE_LIMIT_WINDOW + 1

\* the store with the entries of one client only
OnlyOf(client_ip) ==
    [x \in ClientIps |-> IF x = client_ip THEN _rate_limit_store[x] ELSE <<>>]

\* C38: for each client IP at most RATE_LIMIT_MAX calls return True within
\* any window of RATE_LIMIT_WINDOW seconds, and a call is refused exactly
\* when RATE_LIMIT_MAX calls were granted in the window that ends with it;
\* a refused call is not counted, and a call changes nothing for another IP
\* and is decided by the entries of its own IP alone.
C38_RateLimit ==
    [][\A client_ip \in ClientIps :
          CheckRateLimit(client_ip) =>
              /\ \A a \in 0..MaxNow :
                     GrantsIn(client_ip, a, a + RATE_LIMIT_WINDOW - 1)' <= RATE_LIMIT_MAX
              /\ last_call'.result =
                     (GrantsIn(client_ip, WindowStart(now), now) < RATE_LIMIT_MAX)
              /\ ~last_call'.result =>
                     /\ granted' = granted
                     /\ Len(_rate_limit_store'[client_ip]) = RATE_LIMIT_MAX
              /\ \A other \in ClientIps \ {client_ip} :
                     /\ _rate_limit_store'[other] = _rate_limit_store[other]
                     /\ granted'[other] = granted[other]
              /\ last_call'.result =
                     _check_rate_limit(OnlyOf(client_ip), client_ip, now).result]_vars

\* a client was granted its calls, refused, granted again a window later and
\* is refused again, while the other client has made one call, granted
C38_Witness ==
    \E client_ip \in ClientIps :
        /\ last_call = [op |-> "_check_rate_limit", client_ip |-> client_ip,
                        result |-> FALSE]
        /\ Len(granted[client_ip]) = 2 * RATE_LIMIT_MAX
        /\ \E other \in ClientIps \ {client_ip} : Len(granted[other]) = 1

=============================================================================
